---- MODULE Spec2Model ----
(***************************************************************************)
(* MACROmini: multi-agent code review orchestration.                       *)
(*                                                                         *)
(* The review pipeline of src/orchestration/graph.py (router, parallel     *)
(* agent nodes, aggregator), the agent template of src/agents/base_agent.py*)
(* and the ReviewState of src/orchestration/state.py.                      *)
(*                                                                         *)
(* A Python dict is a function whose DOMAIN is its key set.  An exception  *)
(* is a string naming it; the value None is the string "None".             *)
(***************************************************************************)
EXTENDS Integers, Sequences, FiniteSets, TLC

VARIABLES
    cache_enabled,   \* graph.CACHE_ENABLED
    file,            \* the file under review: its path and the file type
    state,           \* the ReviewState held by the graph's channels
    pc,              \* pipeline position: router, agents, aggregator, done, crashed
    pipeline_error,  \* the exception that ended the pipeline, or "None"
    node,            \* node[a]: position of agent node a
    attempt,         \* attempt[a]: loop variable of _call_llm_with_retry
    calls,           \* calls[a]: gateway calls made in this analysis
    sleeps,          \* sleeps[a]: time.sleep(1) calls made in this analysis
    outcomes,        \* outcomes[a]: how each gateway call of a ended, in call order
    reply,           \* reply[a]: the issue list of the gateway's latest answer to a
    retry,           \* retry[a]: what _call_llm_with_retry returned or raised
    analysis,        \* analysis[a]: the state as analyze() left it (own entries)
    update,          \* update[a]: the dict agent_node returned to the graph
    events,          \* the stream: node names in the order their updates are yielded
    cli,             \* position of the command-line driver (reviewer.py)
    results,         \* what every review finished so far ended with
    exit_code        \* the status the process exited with, NoExit while it runs

pipeVars == <<cache_enabled, file, state, pc, pipeline_error, node, attempt, calls,
              sleeps, outcomes, reply, retry, analysis, update, events>>

cliVars == <<cli, results, exit_code>>

vars == <<pipeVars, cliVars>>

----------------------------------------------------------------------------
(* Bounds of the model *)

\* longest issue list one gateway answer carries
MaxReply == 1

\* most issues the agents of one review leave in their slots (fusion inputs)
MaxIssues == 3

\* most staged files of one run of the command-line driver
MaxFiles == 2

----------------------------------------------------------------------------
(* Names *)

AGENT_ORDER == <<"security", "quality", "performance", "testing", "documentation", "style">>

Agents == {AGENT_ORDER[i] : i \in 1..Len(AGENT_ORDER)}

None == "None"

\* line_number = None (line numbers are 1-based)
NoLine == 0

\* exit_code while the process has not exited
NoExit == -1

EmptyDict == [k \in {} |-> None]

DictSet(d, k, v) == [x \in (DOMAIN d) \cup {k} |-> IF x = k THEN v ELSE d[x]]

DictGet(d, k, default) == IF k \in DOMAIN d THEN d[k] ELSE default

IssueField(a) == a \o "_issues"

IssueFields == {IssueField(a) : a \in Agents}

Range(s) == {s[i] : i \in 1..Len(s)}

RECURSIVE Concat(_, _)
Concat(f, keys) ==
    IF keys = <<>> THEN <<>> ELSE f[Head(keys)] \o Concat(f, Tail(keys))

----------------------------------------------------------------------------
(* Router: src/orchestration/router.py *)

FILE_TYPE_MAPPING ==
    [e \in {".py", ".pyi", ".js", ".jsx", ".ts", ".tsx", ".mjs", ".cjs", ".html",
            ".htm", ".css", ".scss", ".sass", ".json", ".yaml", ".yml", ".toml",
            ".ini", ".cfg", ".conf", ".env", ".md", ".rst", ".txt", ".sql", ".sh",
            ".bash", ".zsh", ".xml", ".go", ".rs", ".java", ".rb", ".php"} |->
        CASE e \in {".py", ".pyi"} -> "python"
          [] e \in {".js", ".jsx", ".mjs", ".cjs"} -> "javascript"
          [] e \in {".ts", ".tsx"} -> "typescript"
          [] e \in {".html", ".htm"} -> "html"
          [] e = ".css" -> "css"
          [] e = ".scss" -> "scss"
          [] e = ".sass" -> "sass"
          [] e = ".json" -> "json"
          [] e \in {".yaml", ".yml"} -> "yaml"
          [] e = ".toml" -> "toml"
          [] e = ".ini" -> "ini"
          [] e \in {".cfg", ".conf"} -> "config"
          [] e = ".env" -> "env"
          [] e = ".md" -> "markdown"
          [] e = ".rst" -> "restructuredtext"
          [] e = ".txt" -> "text"
          [] e = ".sql" -> "sql"
          [] e \in {".sh", ".bash", ".zsh"} -> "shell"
          [] e = ".xml" -> "xml"
          [] e = ".go" -> "go"
          [] e = ".rs" -> "rust"
          [] e = ".java" -> "java"
          [] e = ".rb" -> "ruby"
          [] e = ".php" -> "php"]

TEST_FILE_PATTERNS == {"test_", "_test.", ".test.", ".spec.", "tests/", "/test/"}

CONFIG_FILE_PATTERNS ==
    {"config", "settings", ".env", "dockerfile", "docker-compose", "requirements",
     "package.json", "tsconfig", "webpack", "babel", "eslint", "pytest", "setup.",
     "pyproject.toml"}

DOC_FILE_PATTERNS == {"readme", "changelog", "license", "contributing", "docs/", "/doc/"}

\* A path is its lower-cased extension (os.path.splitext) and the set of the
\* patterns that occur in the lower-cased path as substrings.
detect_file_type(path) ==
    IF path.ext \in DOMAIN FILE_TYPE_MAPPING THEN FILE_TYPE_MAPPING[path.ext] ELSE "unknown"

is_test_file(path) == path.has \cap TEST_FILE_PATTERNS # {}

is_config_file(path) == path.has \cap CONFIG_FILE_PATTERNS # {}

is_documentation_file(path) ==
    IF detect_file_type(path) \in {"markdown", "restructuredtext", "text"}
    THEN path.has \cap DOC_FILE_PATTERNS # {}
    ELSE FALSE

\* a router that tests the test patterns before the config patterns
determine_agents_to_invoke_test_first(path, file_type) ==
    IF is_documentation_file(path) THEN <<"documentation", "style">>
    ELSE IF is_test_file(path) THEN <<"quality", "testing", "documentation", "style">>
    ELSE IF is_config_file(path) THEN <<"security", "documentation", "style">>
    ELSE <<"security", "quality", "documentation", "style">>

determine_agents_to_invoke(path, file_type) ==
    IF is_documentation_file(path) THEN <<"documentation", "style">>
    ELSE IF is_config_file(path) THEN <<"security", "documentation", "style">>
    ELSE IF is_test_file(path) THEN <<"quality", "testing", "documentation", "style">>
    ELSE IF file_type \in {"python", "javascript", "typescript"}
        THEN <<"security", "quality", "performance", "testing", "documentation", "style">>
    ELSE IF file_type = "sql"
        THEN <<"security", "quality", "performance", "documentation", "style">>
    ELSE IF file_type \in {"go", "rust", "java", "ruby", "php"}
        THEN <<"security", "quality", "performance", "testing", "documentation", "style">>
    ELSE IF file_type \in {"html", "css", "scss", "sass"}
        THEN <<"quality", "documentation", "style">>
    ELSE IF file_type = "shell" THEN <<"security", "quality", "documentation", "style">>
    ELSE IF file_type \in {"json", "yaml", "toml", "xml"}
        THEN <<"security", "documentation", "style">>
    ELSE <<"security", "quality", "documentation", "style">>

----------------------------------------------------------------------------
(* Inputs of one review *)

\* The files the model reviews: a documentation file (two agents) and a
\* configuration file whose path also matches a test pattern (three agents).
Files ==
    {[name |-> "README.md", ext |-> ".md", has |-> {"readme"}],
     [name |-> "test_config.json", ext |-> ".json", has |-> {"config", "test_"}]}

\* CodeIssue objects as ReviewResult(**result) builds them (llm_client.py):
\* pydantic models with exactly the six declared fields.
CodeIssues ==
    {[obj |-> "CodeIssue", type |-> "security", severity |-> "critical",
      line_number |-> 10, description |-> <<"s", "q", "l">>, suggestion |-> <<"b">>,
      code_snippet |-> None]}

RECURSIVE SeqsUpTo(_, _)
SeqsUpTo(S, n) ==
    IF n = 0 THEN {<<>>}
    ELSE LET shorter == SeqsUpTo(S, n - 1)
         IN  shorter \cup {Append(s, x) : s \in {t \in shorter : Len(t) = n - 1}, x \in S}

\* What one gateway call does: it returns the parsed issue list, or fails
\* with a retryable or a non-retryable error.
GatewayOutcomes ==
    {[kind |-> "ok", issues |-> r] : r \in SeqsUpTo(CodeIssues, MaxReply)}
        \cup {[kind |-> "TransientError", issues |-> <<>>],
              [kind |-> "FatalError", issues |-> <<>>]}

----------------------------------------------------------------------------
(* ReviewState: src/orchestration/state.py *)

create_initial_state(file_path, file_type, code, diff, change_type) ==
    [k \in {"file_path", "file_type", "code", "diff", "change_type",
            "agent_execution_times", "agent_errors", "agents_to_invoke"}
            \cup IssueFields |->
        CASE k = "file_path" -> file_path
          [] k = "file_type" -> file_type
          [] k = "code" -> code
          [] k = "diff" -> diff
          [] k = "change_type" -> change_type
          [] k = "agent_execution_times" -> EmptyDict
          [] k = "agent_errors" -> EmptyDict
          [] k = "agents_to_invoke" -> <<>>
          [] OTHER -> <<>>]

\* a collection that reads the gateways' latest answers instead of the slots
get_all_agent_issues_replied(st) ==
    Concat([a \in Agents |-> IF IssueField(a) \in DOMAIN st THEN reply[a] ELSE <<>>],
           AGENT_ORDER)

\* a collection in the order the agents completed
get_all_agent_issues_completion(st) ==
    Concat([a \in Agents |-> IF IssueField(a) \in DOMAIN st THEN st[IssueField(a)] ELSE <<>>],
           SelectSeq(events, LAMBDA e : e \in Agents))

\* a collection in the alphabetical order of the agents' names
get_all_agent_issues_alphabetical(st) ==
    Concat([a \in Agents |-> IF IssueField(a) \in DOMAIN st THEN st[IssueField(a)] ELSE <<>>],
           <<"documentation", "performance", "quality", "security", "style", "testing">>)

get_all_agent_issues(st) ==
    Concat([a \in Agents |-> IF IssueField(a) \in DOMAIN st THEN st[IssueField(a)] ELSE <<>>],
           AGENT_ORDER)

----------------------------------------------------------------------------
(* Agent: src/agents/base_agent.py *)

max_retries == 2

\* The fields pydantic lets one assign on a CodeIssue (llm_client.py 31-38);
\* assigning any other attribute raises ValueError.
CodeIssueFields ==
    {"type", "severity", "line_number", "description", "suggestion", "code_snippet"}

\* analyze(), step 2: "for issue in issues: issue.agent = self.agent_name".
\* The exception the loop raises, or None.
StampRaises(issues) ==
    IF \E i \in 1..Len(issues) : issues[i].obj = "CodeIssue" /\ "agent" \notin CodeIssueFields
    THEN "ValueError" ELSE None

Stamp(issues, a) ==
    [i \in 1..Len(issues) |->
        [k \in (DOMAIN issues[i]) \cup {"agent"} |-> IF k = "agent" THEN a ELSE issues[i][k]]]

\* _update_state_with_issues and _update_state_metadata on the node's own
\* copy of the state.
update_state(st, a, issues, execution_time, error) ==
    [st EXCEPT ![IssueField(a)] = issues,
               !["agent_execution_times"] = DictSet(@, a, execution_time),
               !["agent_errors"] = DictSet(@, a, error)]

\* analyze() once _call_llm_with_retry has returned (r.raised = None) or raised.
analyze_finish(st, a, r, execution_time) ==
    IF r.raised = None /\ StampRaises(r.issues) = None
    THEN update_state(st, a, Stamp(r.issues, a), execution_time, None)
    ELSE update_state(st, a, <<>>, execution_time,
                      IF r.raised # None THEN r.raised ELSE StampRaises(r.issues))

----------------------------------------------------------------------------
(* Agent node: src/orchestration/graph.py *)

CACHE_ENABLED == TRUE

generate_cache_key(file_path, code, diff, agent_name) ==
    file_path \o "||" \o code \o "||" \o diff \o "||" \o agent_name

\* The lru_cache-wrapped function body returns None for every key.
get_cached_result(cache_key) == None

\* _get_cached_result.__wrapped__ is a plain function: it has no __setitem__.
\* The exception _cache_result raises, or None.
cache_result(cache_key, result) == "AttributeError"

error_result(a, e) ==
    [k \in {IssueField(a), "agent_errors"} |->
        IF k = "agent_errors" THEN DictSet(EmptyDict, a, "Timeout or error: " \o e)
        ELSE <<>>]

\* agent_node once agent.analyze(state) has returned result.
agent_node_return(st, a, result) ==
    IF cache_enabled
    THEN LET e == cache_result(generate_cache_key(st["file_path"].name, st["code"],
                                                  st["diff"], a), result)
         IN  IF e = None THEN result ELSE error_result(a, e)
    ELSE result

----------------------------------------------------------------------------
(* Text similarity: difflib.SequenceMatcher(None, a, b).ratio()            *)
(* A text is a sequence of characters.                                     *)

Lower(c) == CASE c = "A" -> "a" [] c = "B" -> "b" [] c = "C" -> "c" [] OTHER -> c

lower(text) == [i \in 1..Len(text) |-> Lower(text[i])]

RECURSIVE lstrip(_)
lstrip(text) ==
    IF text # <<>> /\ Head(text) = " " THEN lstrip(Tail(text)) ELSE text

RECURSIVE rstrip(_)
rstrip(text) ==
    IF text # <<>> /\ text[Len(text)] = " "
    THEN rstrip(SubSeq(text, 1, Len(text) - 1)) ELSE text

strip(text) == rstrip(lstrip(text))

\* length of the common run of a from i and b from j, inside a[..ahi], b[..bhi]
RECURSIVE RunLength(_, _, _, _, _, _)
RunLength(a, b, i, j, ahi, bhi) ==
    IF i <= ahi /\ j <= bhi /\ a[i] = b[j]
    THEN 1 + RunLength(a, b, i + 1, j + 1, ahi, bhi) ELSE 0

\* find_longest_match on a[alo..ahi], b[blo..bhi] (inclusive): the longest
\* block, the earliest in a, then the earliest in b.
find_longest_match(a, b, alo, ahi, blo, bhi) ==
    LET cand == {<<i, j>> : i \in alo..ahi, j \in blo..bhi}
        len(c) == RunLength(a, b, c[1], c[2], ahi, bhi)
        best == CHOOSE c \in cand :
                    \A d \in cand :
                        \/ len(c) > len(d)
                        \/ len(c) = len(d) /\ (c[1] < d[1] \/ (c[1] = d[1] /\ c[2] <= d[2]))
    IN  IF cand = {} THEN <<alo, blo, 0>> ELSE <<best[1], best[2], len(best)>>

\* sum of the sizes of get_matching_blocks()
RECURSIVE MatchCount(_, _, _, _, _, _)
MatchCount(a, b, alo, ahi, blo, bhi) ==
    IF alo > ahi \/ blo > bhi THEN 0
    ELSE LET m == find_longest_match(a, b, alo, ahi, blo, bhi)
         IN  IF m[3] = 0 THEN 0
             ELSE m[3] + MatchCount(a, b, alo, m[1] - 1, blo, m[2] - 1)
                       + MatchCount(a, b, m[1] + m[3], ahi, m[2] + m[3], bhi)

\* ratio() = 2.0 * matches / (len(a) + len(b)), and 1.0 for two empty texts,
\* as the pair <<numerator, denominator>>.
calculate_text_similarity(text1, text2) ==
    LET a == lower(text1)
        b == lower(text2)
    IN  IF Len(a) + Len(b) = 0 THEN <<1, 1>>
        ELSE <<2 * MatchCount(a, b, 1, Len(a), 1, Len(b)), Len(a) + Len(b)>>

\* ratio > num / den
RatioGT(r, num, den) == r[1] * den > num * r[2]

----------------------------------------------------------------------------
(* Aggregator: src/orchestration/aggregator.py *)
(* Weights are in tenths, confidences in units of 1 / CONF_ONE, scores in  *)
(* hundredths.                                                             *)

AGENT_WEIGHTS ==
    [a \in Agents |->
        CASE a = "security" -> 20 [] a = "quality" -> 15 [] a = "performance" -> 13
          [] a = "testing" -> 12 [] a = "documentation" -> 10 [] a = "style" -> 5]

SEVERITY_WEIGHTS ==
    [s \in {"critical", "high", "medium", "low", "info"} |->
        CASE s = "critical" -> 100 [] s = "high" -> 50 [] s = "medium" -> 20
          [] s = "low" -> 10 [] s = "info" -> 5]

REJECT_SCORE_THRESHOLD == 1500

COMMENT_SCORE_THRESHOLD == 500

LINE_RANGE == 5

CONF_ONE == 6000

get_severity_priority(severity) ==
    CASE severity = "critical" -> 5 [] severity = "high" -> 4 [] severity = "medium" -> 3
      [] severity = "low" -> 2 [] severity = "info" -> 1 [] OTHER -> 0

\* a difference that keeps its sign
Abs_signed(x) == x

Abs(x) == IF x < 0 THEN -x ELSE x

\* the smallest element where the largest is wanted
Max_smallest(S) == CHOOSE x \in S : \A y \in S : x <= y

Max(S) == CHOOSE x \in S : \A y \in S : y <= x

\* The inner loop of deduplicate_issues: the indexes the seed's cluster takes,
\* scanning all_issues from index j with the indexes in processed skipped.
\* an inner loop that skips the seed only, not the issues already clustered
RECURSIVE ClusterOf_no_skip(_, _, _, _)
ClusterOf_no_skip(all_issues, seed, j, processed) ==
    IF j > Len(all_issues) THEN <<>>
    ELSE IF j = seed THEN ClusterOf_no_skip(all_issues, seed, j + 1, processed)
    ELSE LET issue_line == DictGet(all_issues[seed], "line_number", NoLine)
             other_line == DictGet(all_issues[j], "line_number", NoLine)
         IN  IF \/ issue_line # NoLine /\ other_line # NoLine
                   /\ issue_line - other_line <= LINE_RANGE
                   /\ other_line - issue_line <= LINE_RANGE
                \/ issue_line = NoLine /\ other_line = NoLine
             THEN <<j>> \o ClusterOf_no_skip(all_issues, seed, j + 1, processed)
             ELSE ClusterOf_no_skip(all_issues, seed, j + 1, processed)

RECURSIVE ClusterOf(_, _, _, _)
ClusterOf(all_issues, seed, j, processed) ==
    IF j > Len(all_issues) THEN <<>>
    ELSE IF j \in processed THEN ClusterOf(all_issues, seed, j + 1, processed)
    ELSE LET issue_line == DictGet(all_issues[seed], "line_number", NoLine)
             other_line == DictGet(all_issues[j], "line_number", NoLine)
             joins ==
                IF issue_line # NoLine /\ other_line # NoLine
                THEN Abs(issue_line - other_line) <= LINE_RANGE
                ELSE IF issue_line = NoLine /\ other_line = NoLine
                THEN RatioGT(calculate_text_similarity(
                                DictGet(all_issues[seed], "description", <<>>),
                                DictGet(all_issues[j], "description", <<>>)), 8, 10)
                ELSE FALSE
         IN  IF joins
             THEN <<j>> \o ClusterOf(all_issues, seed, j + 1, processed \cup {j})
             ELSE ClusterOf(all_issues, seed, j + 1, processed)

\* The outer loop of deduplicate_issues: the clusters, as sequences of
\* indexes into all_issues, in the order they are started.
RECURSIVE Clusters(_, _, _)
Clusters(all_issues, i, processed) ==
    IF i > Len(all_issues) THEN <<>>
    ELSE IF i \in processed THEN Clusters(all_issues, i + 1, processed)
    ELSE LET cluster == <<i>> \o ClusterOf(all_issues, i, 1, processed \cup {i})
         IN  <<cluster>> \o Clusters(all_issues, i + 1, processed \cup Range(cluster))

\* a merge that leaves the cluster in its input order
SortBySeverity_unsorted(issues) == issues

\* sorted(issues, key=get_severity_priority, reverse=True): stable
SortBySeverity(issues) ==
    LET prio(i) == get_severity_priority(DictGet(issues[i], "severity", "info"))
        rank(i) == 1 + Cardinality({j \in 1..Len(issues) :
                        prio(j) > prio(i) \/ (prio(j) = prio(i) /\ j < i)})
    IN  [r \in 1..Len(issues) |-> issues[CHOOSE i \in 1..Len(issues) : rank(i) = r]]

\* The loop of merge_duplicate_issues that keeps the descriptions no kept
\* description resembles (similarity > 0.8).
RECURSIVE UniqueDescriptions(_, _, _)
UniqueDescriptions(sorted_issues, i, descriptions) ==
    IF i > Len(sorted_issues) THEN descriptions
    ELSE LET desc == strip(DictGet(sorted_issues[i], "description", <<>>))
             is_unique == \A k \in 1..Len(descriptions) :
                            ~RatioGT(calculate_text_similarity(desc, descriptions[k]), 8, 10)
         IN  UniqueDescriptions(sorted_issues, i + 1,
                IF is_unique /\ desc # <<>> THEN Append(descriptions, desc) ELSE descriptions)

RECURSIVE Join(_, _)
Join(sep, texts) ==
    IF Len(texts) = 1 THEN texts[1] ELSE texts[1] \o sep \o Join(sep, Tail(texts))

\* max(suggestions, key=len): the first of the longest
LongestFirst(texts) ==
    texts[CHOOSE i \in 1..Len(texts) :
            /\ \A j \in 1..Len(texts) : Len(texts[j]) <= Len(texts[i])
            /\ \A j \in 1..(i - 1) : Len(texts[j]) < Len(texts[i])]

RECURSIVE Sum(_)
Sum(ns) == IF ns = <<>> THEN 0 ELSE Head(ns) + Sum(Tail(ns))

ALPHABETICAL ==
    <<"documentation", "performance", "quality", "security", "style", "testing", "unknown">>

\* an agent list that keeps one producer only
SortedAgents_one(S) == <<CHOOSE a \in S : TRUE>>

\* sorted(list(agents))
SortedAgents(S) == SelectSeq(ALPHABETICAL, LAMBDA a : a \in S)

\* The exception merge_duplicate_issues raises on a cluster, or None:
\* descriptions[0] of an empty list.
merge_raises(issues) ==
    IF Len(issues) > 1 /\ UniqueDescriptions(SortBySeverity(issues), 1, <<>>) = <<>>
    THEN "IndexError" ELSE None

merge_duplicate_issues(issues) ==
    IF Len(issues) = 1 THEN issues[1]
    ELSE LET sorted_issues == SortBySeverity(issues)
             base == sorted_issues[1]
             agents == {DictGet(issues[i], "agent", "unknown") : i \in 1..Len(issues)}
             descriptions == UniqueDescriptions(sorted_issues, 1, <<>>)
             suggestions == [i \in 1..Len(sorted_issues) |->
                                DictGet(sorted_issues[i], "suggestion", <<>>)]
             confidences == [i \in 1..Len(issues) |->
                                DictGet(issues[i], "confidence", CONF_ONE)]
             avg_confidence == Sum(confidences) \div Len(issues)
             boosted == (avg_confidence * (10 + (Len(issues) - 1))) \div 10
         IN  [k \in (DOMAIN base) \cup {"description", "suggestion", "confidence",
                                        "agents", "duplicate_count"} |->
                CASE k = "description" ->
                        IF Len(descriptions) > 1 THEN Join(<<" ", "|", " ">>, descriptions)
                        ELSE descriptions[1]
                  [] k = "suggestion" -> LongestFirst(suggestions)
                  [] k = "confidence" -> IF boosted < CONF_ONE THEN boosted ELSE CONF_ONE
                  [] k = "agents" -> SortedAgents(agents)
                  [] k = "duplicate_count" -> Len(issues)
                  [] OTHER -> base[k]]

\* The exception deduplicate_issues raises, or None.  An issue that is a
\* CodeIssue object has no method get.
deduplicate_raises(all_issues) ==
    IF \E i \in 1..Len(all_issues) : all_issues[i].obj # "dict" THEN "AttributeError"
    ELSE LET clusters == Clusters(all_issues, 1, {})
         IN  IF \E c \in 1..Len(clusters) :
                    merge_raises([m \in 1..Len(clusters[c]) |-> all_issues[clusters[c][m]]]) # None
             THEN "IndexError" ELSE None

deduplicate_issues(all_issues) ==
    IF all_issues = <<>> THEN <<>>
    ELSE LET clusters == Clusters(all_issues, 1, {})
         IN  [c \in 1..Len(clusters) |->
                merge_duplicate_issues([m \in 1..Len(clusters[c]) |-> all_issues[clusters[c][m]]])]

\* round(x, 2) of x = n / d hundredths: to the nearest, ties to even
RoundHalfEven(n, d) ==
    LET q == n \div d
        r == n % d
    IN  IF 2 * r > d \/ (2 * r = d /\ q % 2 = 1) THEN q + 1 ELSE q

calculate_weighted_score(issues) ==
    LET issue_score(issue) ==
            LET severity == DictGet(issue, "severity", "info")
                agents == DictGet(issue, "agents", <<DictGet(issue, "agent", "unknown")>>)
                confidence == DictGet(issue, "confidence", CONF_ONE)
                severity_weight == DictGet(SEVERITY_WEIGHTS, severity, 0)
                agent_weight ==
                    IF agents = <<>> THEN 10
                    ELSE Max({DictGet(AGENT_WEIGHTS, agents[i], 10) : i \in 1..Len(agents)})
            IN  severity_weight * agent_weight * confidence
    IN  RoundHalfEven(Sum([i \in 1..Len(issues) |-> issue_score(issues[i])]), CONF_ONE)

\* What get_all_agent_issues reads in a list of issues handed to it in the
\* place of a state: `"security_issues" in lst` tests the elements of the list,
\* so none of the six keys is found.
ListReadAsState(lst) == EmptyDict

\* count_issues_by_severity(state): counts over get_all_agent_issues(state)
count_issues_by_severity(st) ==
    LET all_issues == get_all_agent_issues(st)
    IN  [s \in {"critical", "high", "medium", "low", "info"} |->
            Cardinality({i \in 1..Len(all_issues) : all_issues[i].severity = s})]

\* a verdict whose score thresholds are not strict
determine_verdict_inclusive(score, severity_counts) ==
    IF DictGet(severity_counts, "critical", 0) > 0 THEN "reject"
    ELSE IF score >= REJECT_SCORE_THRESHOLD THEN "reject"
    ELSE IF DictGet(severity_counts, "high", 0) > 0 THEN "comment"
    ELSE IF score >= COMMENT_SCORE_THRESHOLD THEN "comment"
    ELSE "approve"

determine_verdict(score, severity_counts) ==
    IF DictGet(severity_counts, "critical", 0) > 0 THEN "reject"
    ELSE IF score > REJECT_SCORE_THRESHOLD THEN "reject"
    ELSE IF DictGet(severity_counts, "high", 0) > 0 THEN "comment"
    ELSE IF score > COMMENT_SCORE_THRESHOLD THEN "comment"
    ELSE "approve"

\* The dict aggregate_review_results returns, from the values of its locals
aggregate_return(all_issues, deduplicated_issues, severity_counts, weighted_score) ==
    [k \in {"all_issues", "deduplicated_issues", "final_score", "verdict", "summary"} |->
        CASE k = "all_issues" -> all_issues
          [] k = "deduplicated_issues" -> deduplicated_issues
          [] k = "final_score" -> weighted_score
          [] k = "verdict" -> determine_verdict(weighted_score, severity_counts)
          [] k = "summary" ->
                [total_issues |-> Len(deduplicated_issues),
                 original_count |-> Len(all_issues),
                 duplicates_removed |-> Len(all_issues) - Len(deduplicated_issues),
                 severity_counts |-> severity_counts]]

\* aggregate_review_results from the deduplication on: the severity counts
\* are taken of the list deduplicated_issues, passed where a state is expected.
aggregate_fused(all_issues, deduplicated_issues) ==
    aggregate_return(all_issues, deduplicated_issues,
                     count_issues_by_severity(ListReadAsState(deduplicated_issues)),
                     calculate_weighted_score(deduplicated_issues))

\* The dict aggregate_review_results returns (when nothing in it raises).
aggregate_review_results(st) ==
    aggregate_fused(get_all_agent_issues(st), deduplicate_issues(get_all_agent_issues(st)))

aggregate_raises(st) == deduplicate_raises(get_all_agent_issues(st))

----------------------------------------------------------------------------
(* The review graph: src/orchestration/graph.py, create_review_graph *)

Pending == [raised |-> "pending", issues |-> <<>>]

NoAnalysis == [issues |-> <<>>, error |-> "pending", execution_time |-> 0]

Init ==
    /\ cache_enabled = CACHE_ENABLED
    /\ file \in Files
    /\ state = create_initial_state(file, detect_file_type(file), "code", "diff", "modified")
    /\ pc = "router"
    /\ pipeline_error = None
    /\ node = [a \in Agents |-> "idle"]
    /\ attempt = [a \in Agents |-> 0]
    /\ calls = [a \in Agents |-> 0]
    /\ sleeps = [a \in Agents |-> 0]
    /\ outcomes = [a \in Agents |-> <<>>]
    /\ reply = [a \in Agents |-> <<>>]
    /\ retry = [a \in Agents |-> Pending]
    /\ analysis = [a \in Agents |-> NoAnalysis]
    /\ update = [a \in Agents |-> EmptyDict]
    /\ events = <<>>
    /\ cli = [at |-> "idle", seen |-> 0, how |-> None]
    /\ results = <<>>
    /\ exit_code = NoExit

router_node(st) ==
    LET file_path == st["file_path"]
        file_type == DictGet(st, "file_type", detect_file_type(file_path))
    IN  [k \in {"file_type", "agents_to_invoke"} |->
            IF k = "file_type" THEN file_type
            ELSE determine_agents_to_invoke(file_path, file_type)]

\* A node's update written into the state's keys
Write(st, upd) == [k \in (DOMAIN st) \cup (DOMAIN upd) |-> IF k \in DOMAIN upd THEN upd[k] ELSE st[k]]

\* The entry point: the router runs alone, and its conditional edges schedule
\* the nodes of agents_to_invoke for the next step.
Router ==
    /\ pc = "router"
    /\ LET upd == router_node(state)
       IN  /\ state' = Write(state, upd)
           /\ node' = [a \in Agents |->
                        IF a \in Range(upd["agents_to_invoke"]) THEN "ready" ELSE "idle"]
    /\ pc' = "agents"
    /\ events' = Append(events, "router")
    /\ UNCHANGED <<cache_enabled, file, pipeline_error, attempt, calls, sleeps, outcomes,
                   reply, retry, analysis, update>>
    /\ UNCHANGED cliVars

\* agent_node up to the first gateway call: the cache lookup, then
\* agent.analyze(state) enters _call_llm_with_retry with attempt = 0.
AgentStart(a) ==
    /\ pc = "agents"
    /\ node[a] = "ready"
    /\ LET cached ==
            IF cache_enabled
            THEN get_cached_result(generate_cache_key(state["file_path"].name,
                                                      state["code"], state["diff"], a))
            ELSE None
       IN  IF cached # None
           THEN /\ update' = [update EXCEPT ![a] = cached]
                /\ node' = [node EXCEPT ![a] = "done"]
                /\ events' = Append(events, a)
                /\ UNCHANGED <<attempt, calls>>
           ELSE /\ node' = [node EXCEPT ![a] = "gateway"]
                /\ attempt' = [attempt EXCEPT ![a] = 0]
                /\ calls' = [calls EXCEPT ![a] = 1]
                /\ UNCHANGED <<update, events>>
    /\ UNCHANGED <<cache_enabled, file, state, pc, pipeline_error, sleeps, outcomes,
                   reply, retry, analysis>>
    /\ UNCHANGED cliVars

\* a retry loop that goes round once more than max_retries allows
RetriesAfter_extra(att, outcome) == outcome.kind # "ok" /\ att # max_retries + 1

\* _call_llm_with_retry: after a failed call, whether the loop goes on
\* (any Exception is caught; only the last attempt re-raises).
RetriesAfter(att, outcome) == outcome.kind # "ok" /\ att # max_retries

\* The gateway call of agent a returns or fails.  A failure that is retried
\* starts the one-second sleep; anything else ends _call_llm_with_retry,
\* then analyze(), then agent_node, whose return value is a's update.
GatewayReturn(a) ==
    /\ node[a] = "gateway"
    /\ \E o \in GatewayOutcomes :
        /\ outcomes' = [outcomes EXCEPT ![a] = Append(@, o.kind)]
        /\ reply' = [reply EXCEPT ![a] = o.issues]
        /\ IF RetriesAfter(attempt[a], o)
           THEN /\ node' = [node EXCEPT ![a] = "sleeping"]
                /\ sleeps' = [sleeps EXCEPT ![a] = @ + 1]
                /\ UNCHANGED <<retry, analysis, update, events>>
           ELSE LET r == IF o.kind = "ok" THEN [raised |-> None, issues |-> o.issues]
                         ELSE [raised |-> o.kind, issues |-> <<>>]
                    result == analyze_finish(state, a, r, sleeps[a])
                IN  /\ retry' = [retry EXCEPT ![a] = r]
                    /\ analysis' = [analysis EXCEPT ![a] =
                            [issues |-> result[IssueField(a)],
                             error |-> result["agent_errors"][a],
                             execution_time |-> result["agent_execution_times"][a]]]
                    /\ update' = [update EXCEPT ![a] = agent_node_return(state, a, result)]
                    /\ node' = [node EXCEPT ![a] = "done"]
                    /\ events' = Append(events, a)
                    /\ UNCHANGED sleeps
    /\ UNCHANGED <<cache_enabled, file, state, pc, pipeline_error, attempt, calls>>
    /\ UNCHANGED cliVars

\* time.sleep(1) ends: the next iteration of the retry loop calls the gateway.
Wake(a) ==
    /\ node[a] = "sleeping"
    /\ node' = [node EXCEPT ![a] = "gateway"]
    /\ attempt' = [attempt EXCEPT ![a] = @ + 1]
    /\ calls' = [calls EXCEPT ![a] = @ + 1]
    /\ UNCHANGED <<cache_enabled, file, state, pc, pipeline_error, sleeps, outcomes,
                   reply, retry, analysis, update, events>>
    /\ UNCHANGED cliVars

\* a join that waits only until every agent has started
AgentStepOver_started == \A a \in Range(state["agents_to_invoke"]) : node[a] # "ready"

\* a join that waits for one agent only
AgentStepOver_any == \E a \in Range(state["agents_to_invoke"]) : node[a] = "done"

\* The aggregator has an edge from every agent node; all scheduled agent
\* nodes belong to one step, and the step ends when each has returned.
AgentStepOver == \A a \in Range(state["agents_to_invoke"]) : node[a] = "done"

Finished == {a \in Agents : node[a] = "done"}

Writers(k) == {a \in Finished : k \in DOMAIN update[a]}

\* the writer of key k that returned last
LastWriter(k) ==
    CHOOSE a \in Writers(k) :
        \A b \in Writers(k) :
            (CHOOSE i \in 1..Len(events) : events[i] = b)
                <= (CHOOSE i \in 1..Len(events) : events[i] = a)

\* ReviewState declares every key without a reducer (state.py 28-53).  When
\* several nodes of one step write such a key, the graph runtime either
\* refuses the step (InvalidUpdateError) or keeps a single written value;
\* which of the two is the runtime's choice, not the repository's.
ChannelPolicies == {"refuse", "keep_last"}

ApplyWrites ==
    /\ pc = "agents"
    /\ AgentStepOver
    /\ LET keys == UNION {DOMAIN update[a] : a \in Finished}
           conflict == \E k \in keys : Cardinality(Writers(k)) > 1
       IN  \E policy \in ChannelPolicies :
            IF conflict /\ policy = "refuse"
            THEN /\ pc' = "crashed"
                 /\ pipeline_error' = "InvalidUpdateError"
                 /\ UNCHANGED state
            ELSE /\ pc' = "aggregator"
                 /\ state' = [k \in (DOMAIN state) \cup keys |->
                                IF k \in keys THEN update[LastWriter(k)][k] ELSE state[k]]
                 /\ UNCHANGED pipeline_error
    /\ UNCHANGED <<cache_enabled, file, node, attempt, calls, sleeps, outcomes, reply,
                   retry, analysis, update, events>>
    /\ UNCHANGED cliVars

\* a trigger that fires once for every agent edge into the aggregator
AggregatorScheduled_per_edge ==
    \/ pc = "aggregator"
    \/ /\ pc = "done"
       /\ Cardinality({i \in 1..Len(events) : events[i] = "aggregator"})
            < Len(state["agents_to_invoke"])

\* The aggregator is scheduled for the step after the agents' step, once,
\* however many of its incoming edges fired in that step.
AggregatorScheduled == pc = "aggregator"

\* aggregator_node, then END
Aggregator ==
    /\ AggregatorScheduled
    /\ IF aggregate_raises(state) # None
       THEN /\ pc' = "crashed"
            /\ pipeline_error' = aggregate_raises(state)
            /\ UNCHANGED <<state, events>>
       ELSE LET out == aggregate_review_results(state)
            IN  /\ state' = Write(state, out)
                /\ pc' = "done"
                /\ events' = Append(events, "aggregator")
                /\ UNCHANGED pipeline_error
    /\ UNCHANGED <<cache_enabled, file, node, attempt, calls, sleeps, outcomes, reply,
                   retry, analysis, update>>
    /\ UNCHANGED cliVars

Next ==
    \/ Router
    \/ \E a \in Agents : AgentStart(a)
    \/ \E a \in Agents : GatewayReturn(a)
    \/ \E a \in Agents : Wake(a)
    \/ ApplyWrites
    \/ Aggregator

Spec == Init /\ [][Next]_vars

\* The runtime runs every node it has scheduled and every started call
\* returns: each action of each agent, and each step of the graph, is taken
\* if it stays enabled.
Fairness ==
    /\ WF_vars(Router)
    /\ \A a \in Agents : WF_vars(AgentStart(a)) /\ WF_vars(GatewayReturn(a)) /\ WF_vars(Wake(a))
    /\ WF_vars(ApplyWrites)
    /\ WF_vars(Aggregator)

LiveSpec == Spec /\ Fairness

----------------------------------------------------------------------------
(* Fusion on the slots the agent step can leave: aggregator_node applied   *)
(* to states whose issue slots hold attributed issue dicts.                *)

\* The issues the agents' slots are filled from
FusionIssues ==
    {[obj |-> "dict", type |-> "quality", severity |-> s, line_number |-> l,
      description |-> <<"a", "b", "c", "d">>, suggestion |-> <<"f", "i", "x">>,
      code_snippet |-> None, agent |-> a, confidence |-> c] :
        s \in {"critical", "high", "low"}, l \in {NoLine, 1, 6, 11},
        a \in {"security", "style"}, c \in {CONF_ONE, CONF_ONE \div 2}}

SourceFile == [name |-> "app.py", ext |-> ".py", has |-> {}]

\* The state after the router's step for file_path
RoutedState(file_path) ==
    LET st == create_initial_state(file_path, detect_file_type(file_path),
                                   "code", "diff", "modified")
    IN  Write(st, router_node(st))

InitFusion ==
    /\ cache_enabled = CACHE_ENABLED
    /\ file = SourceFile
    /\ state = RoutedState(SourceFile)
    /\ pc = "aggregator"
    /\ pipeline_error = None
    /\ node = [a \in Agents |-> "done"]
    /\ attempt = [a \in Agents |-> 0]
    /\ calls = [a \in Agents |-> 0]
    /\ sleeps = [a \in Agents |-> 0]
    /\ outcomes = [a \in Agents |-> <<>>]
    /\ reply = [a \in Agents |-> <<>>]
    /\ retry = [a \in Agents |-> Pending]
    /\ analysis = [a \in Agents |-> NoAnalysis]
    /\ update = [a \in Agents |-> EmptyDict]
    /\ events = <<>>
    /\ cli = [at |-> "idle", seen |-> 0, how |-> None]
    /\ results = <<>>
    /\ exit_code = NoExit

\* One more issue in the slot of the agent it is attributed to
EmitIssue(issue) ==
    /\ pc = "aggregator"
    /\ Len(get_all_agent_issues(state)) < MaxIssues
    /\ state' = [state EXCEPT ![IssueField(issue.agent)] = Append(@, issue)]
    /\ UNCHANGED <<cache_enabled, file, pc, pipeline_error, node, attempt, calls, sleeps,
                   outcomes, reply, retry, analysis, update, events>>
    /\ UNCHANGED cliVars

NextFusion ==
    \/ \E issue \in FusionIssues : EmitIssue(issue)
    \/ Aggregator

FusionSpec == InitFusion /\ [][NextFusion]_vars

----------------------------------------------------------------------------
(* The command-line driver: src/reviewer.py *)

\* The all_issues lists a reviewed file's agents leave (driver inputs)
CliIssues ==
    {i \in FusionIssues :
        /\ i.confidence = CONF_ONE
        /\ \/ i.severity = "high" /\ i.agent = "security" /\ i.line_number \in {1, 11}
           \/ i.severity = "critical" /\ i.agent = "style" /\ i.line_number = 1}

CliIssueLists == SeqsUpTo(CliIssues, 2)

\* The state the aggregator node receives when the slots hold all_issues
StateWithIssues(all_issues) ==
    LET st == RoutedState(SourceFile)
    IN  [k \in DOMAIN st |->
            IF k \in IssueFields
            THEN SelectSeq(all_issues, LAMBDA i : IssueField(i.agent) = k)
            ELSE st[k]]

\* display_results: False when some deduplicated issue of some file is
\* critical, True otherwise (a falsy None for an empty list).
display_results(rs) ==
    LET critical_count(st) ==
            LET deduplicated_issues == DictGet(st, "deduplicated_issues", <<>>)
            IN  Cardinality({i \in 1..Len(deduplicated_issues) :
                    DictGet(deduplicated_issues[i], "severity", "") = "critical"})
        total_critical == Sum([r \in 1..Len(rs) |-> critical_count(rs[r])])
    IN  IF rs = <<>> THEN FALSE ELSE total_critical = 0

\* run(): True when there is no result, else what display_results returns
run_passed(rs) == IF rs = <<>> THEN TRUE ELSE display_results(rs)

InitCli ==
    /\ cache_enabled = CACHE_ENABLED
    /\ file = SourceFile
    /\ state = RoutedState(SourceFile)
    /\ pc = "idle"
    /\ pipeline_error = None
    /\ node = [a \in Agents |-> "idle"]
    /\ attempt = [a \in Agents |-> 0]
    /\ calls = [a \in Agents |-> 0]
    /\ sleeps = [a \in Agents |-> 0]
    /\ outcomes = [a \in Agents |-> <<>>]
    /\ reply = [a \in Agents |-> <<>>]
    /\ retry = [a \in Agents |-> Pending]
    /\ analysis = [a \in Agents |-> NoAnalysis]
    /\ update = [a \in Agents |-> EmptyDict]
    /\ events = <<>>
    /\ cli = [at |-> "connect", seen |-> 0, how |-> None]
    /\ results = <<>>
    /\ exit_code = NoExit

Exit(how, status) ==
    /\ cli' = [cli EXCEPT !.at = "exited", !.how = how]
    /\ exit_code' = status

\* run(): the connection test self.llm.invoke("test")
CliConnect ==
    /\ cli.at = "connect"
    /\ \E connected \in BOOLEAN :
        IF connected
        THEN cli' = [cli EXCEPT !.at = "review"] /\ UNCHANGED exit_code
        ELSE Exit("no_connection", 1)
    /\ UNCHANGED results
    /\ UNCHANGED pipeVars

\* review_staged_changes(), one iteration of "for change in changes": a
\* deleted file is skipped; for any other the stream of the review is read to
\* its last update, the aggregator's, which becomes the file's review_state.
\* An exception of the stream reaches __main__, which exits with status 1.
CliReviewFile ==
    /\ cli.at = "review"
    /\ cli.seen < MaxFiles
    /\ \E change_type \in {"added", "modified", "deleted"}, all_issues \in CliIssueLists,
          stream_raises \in BOOLEAN :
        IF change_type = "deleted"
        THEN /\ cli' = [cli EXCEPT !.seen = @ + 1]
             /\ UNCHANGED <<results, exit_code>>
        ELSE IF stream_raises \/ aggregate_raises(StateWithIssues(all_issues)) # None
        THEN /\ Exit("error", 1)
             /\ UNCHANGED results
        ELSE /\ cli' = [cli EXCEPT !.seen = @ + 1]
             /\ results' = Append(results, aggregate_review_results(StateWithIssues(all_issues)))
             /\ UNCHANGED exit_code
    /\ UNCHANGED pipeVars

\* run() returns after the last staged change; sys.exit(0 if passed else 1)
CliFinish ==
    /\ cli.at = "review"
    /\ Exit("finished", IF run_passed(results) THEN 0 ELSE 1)
    /\ UNCHANGED results
    /\ UNCHANGED pipeVars

\* KeyboardInterrupt
CliInterrupt ==
    /\ cli.at \in {"connect", "review"}
    /\ Exit("interrupt", 130)
    /\ UNCHANGED results
    /\ UNCHANGED pipeVars

NextCli == CliConnect \/ CliReviewFile \/ CliFinish \/ CliInterrupt

CliSpec == InitCli /\ [][NextCli]_vars

----------------------------------------------------------------------------
(* The same review run twice in one process: run_multi_agent_review called  *)
(* again with identical (file_path, code, diff).  The module-level cache    *)
(* _get_cached_result outlives the first run.                               *)

ReviewedTwice == CHOOSE f \in Files : f.name = "README.md"

InitCache ==
    /\ cache_enabled = CACHE_ENABLED
    /\ file = ReviewedTwice
    /\ state = create_initial_state(file, detect_file_type(file), "code", "diff", "modified")
    /\ pc = "router"
    /\ pipeline_error = None
    /\ node = [a \in Agents |-> "idle"]
    /\ attempt = [a \in Agents |-> 0]
    /\ calls = [a \in Agents |-> 0]
    /\ sleeps = [a \in Agents |-> 0]
    /\ outcomes = [a \in Agents |-> <<>>]
    /\ reply = [a \in Agents |-> <<>>]
    /\ retry = [a \in Agents |-> Pending]
    /\ analysis = [a \in Agents |-> NoAnalysis]
    /\ update = [a \in Agents |-> EmptyDict]
    /\ events = <<>>
    /\ cli = [at |-> "first_run", seen |-> 0, how |-> None]
    /\ results = <<>>
    /\ exit_code = NoExit

\* The first run has returned or raised; what it ended with is kept and
\* run_multi_agent_review starts again from create_initial_state.
RunAgain ==
    /\ cli.at = "first_run"
    /\ pc \in {"done", "crashed"}
    /\ results' = <<[pc |-> pc, pipeline_error |-> pipeline_error, state |-> state,
                     update |-> update, reply |-> reply]>>
    /\ cli' = [cli EXCEPT !.at = "second_run", !.seen = 1]
    /\ state' = create_initial_state(file, detect_file_type(file), "code", "diff", "modified")
    /\ pc' = "router"
    /\ pipeline_error' = None
    /\ node' = [a \in Agents |-> "idle"]
    /\ attempt' = [a \in Agents |-> 0]
    /\ calls' = [a \in Agents |-> 0]
    /\ sleeps' = [a \in Agents |-> 0]
    /\ outcomes' = [a \in Agents |-> <<>>]
    /\ reply' = [a \in Agents |-> <<>>]
    /\ retry' = [a \in Agents |-> Pending]
    /\ analysis' = [a \in Agents |-> NoAnalysis]
    /\ update' = [a \in Agents |-> EmptyDict]
    /\ events' = <<>>
    /\ UNCHANGED <<cache_enabled, file, exit_code>>

NextCache == Next \/ RunAgain

CacheSpec == InitCache /\ [][NextCache]_vars

----------------------------------------------------------------------------
(* The router on its own: router_node applied to the initial state of any  *)
(* path.                                                                   *)

RouterExtensions ==
    {".py", ".md", ".txt", ".json", ".sql", ".html", ".sh", ".go", ".xml", ".ini", ".xyz"}

\* the patterns a routed path may contain
RouterPatterns == {"readme", "config", "test_"}

RouterPaths ==
    {[name |-> "path", ext |-> e, has |-> h] : e \in RouterExtensions, h \in SUBSET RouterPatterns}

InitRouter ==
    /\ cache_enabled = CACHE_ENABLED
    /\ file \in RouterPaths
    /\ state = create_initial_state(file, detect_file_type(file), "code", "diff", "modified")
    /\ pc = "router"
    /\ pipeline_error = None
    /\ node = [a \in Agents |-> "idle"]
    /\ attempt = [a \in Agents |-> 0]
    /\ calls = [a \in Agents |-> 0]
    /\ sleeps = [a \in Agents |-> 0]
    /\ outcomes = [a \in Agents |-> <<>>]
    /\ reply = [a \in Agents |-> <<>>]
    /\ retry = [a \in Agents |-> Pending]
    /\ analysis = [a \in Agents |-> NoAnalysis]
    /\ update = [a \in Agents |-> EmptyDict]
    /\ events = <<>>
    /\ cli = [at |-> "idle", seen |-> 0, how |-> None]
    /\ results = <<>>
    /\ exit_code = NoExit

RouterSpec == InitRouter /\ [][Router]_vars

----------------------------------------------------------------------------
(* The collection on its own: aggregator_node applied to the routed state  *)
(* of any path, the slots of the invoked agents holding their issues.      *)

\* the issues the invoked agents' slots are filled from
CollectIssues ==
    {[obj |-> "dict", type |-> "quality", severity |-> "low", line_number |-> l,
      description |-> <<"a", "b", "c", "d">>, suggestion |-> <<"f", "i", "x">>,
      code_snippet |-> None, agent |-> a, confidence |-> CONF_ONE] :
        l \in {1, 11}, a \in Agents}

InitCollect ==
    /\ cache_enabled = CACHE_ENABLED
    /\ file \in RouterPaths
    /\ state = RoutedState(file)
    /\ pc = "aggregator"
    /\ pipeline_error = None
    /\ node = [a \in Agents |-> "done"]
    /\ attempt = [a \in Agents |-> 0]
    /\ calls = [a \in Agents |-> 0]
    /\ sleeps = [a \in Agents |-> 0]
    /\ outcomes = [a \in Agents |-> <<>>]
    /\ reply = [a \in Agents |-> <<>>]
    /\ retry = [a \in Agents |-> Pending]
    /\ analysis = [a \in Agents |-> NoAnalysis]
    /\ update = [a \in Agents |-> EmptyDict]
    /\ events = <<>>
    /\ cli = [at |-> "idle", seen |-> 0, how |-> None]
    /\ results = <<>>
    /\ exit_code = NoExit

\* One more issue in the slot of the invoked agent it is attributed to
CollectIssue(issue) ==
    /\ pc = "aggregator"
    /\ issue.agent \in Range(state["agents_to_invoke"])
    /\ Len(get_all_agent_issues(state)) < MaxIssues
    /\ state' = [state EXCEPT ![IssueField(issue.agent)] = Append(@, issue)]
    /\ UNCHANGED <<cache_enabled, file, pc, pipeline_error, node, attempt, calls, sleeps,
                   outcomes, reply, retry, analysis, update, events>>
    /\ UNCHANGED cliVars

NextCollect ==
    \/ \E issue \in CollectIssues : CollectIssue(issue)
    \/ Aggregator

CollectSpec == InitCollect /\ [][NextCollect]_vars

----------------------------------------------------------------------------
(* Fusion on issues whose texts may be empty or blank *)

\* the texts of an issue: empty, whitespace only, or filled
IssueTexts == {<<>>, <<" ">>, <<"a", "b", "c", "d">>}

\* the issues the agents' slots are filled from; description and suggestion
\* hold the same text
BlankIssues ==
    {[obj |-> "dict", type |-> "quality", severity |-> s, line_number |-> l,
      description |-> t, suggestion |-> t,
      code_snippet |-> None, agent |-> a, confidence |-> CONF_ONE] :
        s \in {"high", "low"}, l \in {NoLine, 1}, t \in IssueTexts,
        a \in {"security", "style"}}

\* One more issue, its texts possibly blank, in its agent's slot
EmitBlank(issue) ==
    /\ pc = "aggregator"
    /\ Len(get_all_agent_issues(state)) < MaxIssues
    /\ state' = [state EXCEPT ![IssueField(issue.agent)] = Append(@, issue)]
    /\ UNCHANGED <<cache_enabled, file, pc, pipeline_error, node, attempt, calls, sleeps,
                   outcomes, reply, retry, analysis, update, events>>
    /\ UNCHANGED cliVars

NextBlank ==
    \/ \E issue \in BlankIssues : EmitBlank(issue)
    \/ Aggregator

BlankSpec == InitFusion /\ [][NextBlank]_vars

----------------------------------------------------------------------------
(* The cache keys on their own: the key agent_node computes for each agent *)
(* invocation, over reviews of one file with different code and diff.      *)

\* most invocations whose keys are kept
MaxKeys == 2

\* the code and diff texts of the reviews
KeyTexts == {"x", "x||x"}

\* The state after the router's step of a review of code and diff
KeyState(code, diff) ==
    LET st == create_initial_state(SourceFile, detect_file_type(SourceFile),
                                   code, diff, "modified")
    IN  Write(st, router_node(st))

InitKey ==
    /\ cache_enabled = CACHE_ENABLED
    /\ file = SourceFile
    /\ \E code \in KeyTexts, diff \in KeyTexts : state = KeyState(code, diff)
    /\ pc = "agents"
    /\ pipeline_error = None
    /\ node = [a \in Agents |-> "idle"]
    /\ attempt = [a \in Agents |-> 0]
    /\ calls = [a \in Agents |-> 0]
    /\ sleeps = [a \in Agents |-> 0]
    /\ outcomes = [a \in Agents |-> <<>>]
    /\ reply = [a \in Agents |-> <<>>]
    /\ retry = [a \in Agents |-> Pending]
    /\ analysis = [a \in Agents |-> NoAnalysis]
    /\ update = [a \in Agents |-> EmptyDict]
    /\ events = <<>>
    /\ cli = [at |-> "idle", seen |-> 0, how |-> None]
    /\ results = <<>>
    /\ exit_code = NoExit

\* agent_node of a computes its cache key; results keeps the invocation
KeyInvoke(a) ==
    /\ a \in Range(state["agents_to_invoke"])
    /\ Len(results) < MaxKeys
    /\ results' = Append(results,
            [file_path |-> state["file_path"].name, code |-> state["code"],
             diff |-> state["diff"], agent_name |-> a,
             key |-> generate_cache_key(state["file_path"].name, state["code"],
                                        state["diff"], a)])
    /\ UNCHANGED <<cache_enabled, file, state, pc, pipeline_error, node, attempt, calls,
                   sleeps, outcomes, reply, retry, analysis, update, events, cli,
                   exit_code>>

\* The next review of the file, with another code or diff
KeyReview(code, diff) ==
    /\ <<code, diff>> # <<state["code"], state["diff"]>>
    /\ state' = KeyState(code, diff)
    /\ UNCHANGED <<cache_enabled, file, pc, pipeline_error, node, attempt, calls,
                   sleeps, outcomes, reply, retry, analysis, update, events, cli,
                   results, exit_code>>

NextKey ==
    \/ \E a \in Agents : KeyInvoke(a)
    \/ \E code \in KeyTexts, diff \in KeyTexts : KeyReview(code, diff)

KeySpec == InitKey /\ [][NextKey]_vars

----------------------------------------------------------------------------
(* The verdict on its own: determine_verdict applied to a score and to     *)
(* severity counts.                                                        *)

\* how far around each threshold the scores of the model go, in hundredths
ScoreMargin == 10

\* most issues of one severity in the counts of the model
MaxCount == 1

Scores ==
    {0, 2000}
        \cup ((COMMENT_SCORE_THRESHOLD - ScoreMargin)..(COMMENT_SCORE_THRESHOLD + ScoreMargin))
        \cup ((REJECT_SCORE_THRESHOLD - ScoreMargin)..(REJECT_SCORE_THRESHOLD + ScoreMargin))

SeverityCounts ==
    {[s \in {"critical", "high", "medium", "low", "info"} |->
        CASE s = "critical" -> c [] s = "high" -> h [] OTHER -> 0] :
            c \in 0..MaxCount, h \in 0..MaxCount}

\* everything but state and pc at rest
AtRest ==
    /\ cache_enabled = CACHE_ENABLED
    /\ file = SourceFile
    /\ pipeline_error = None
    /\ node = [a \in Agents |-> "idle"]
    /\ attempt = [a \in Agents |-> 0]
    /\ calls = [a \in Agents |-> 0]
    /\ sleeps = [a \in Agents |-> 0]
    /\ outcomes = [a \in Agents |-> <<>>]
    /\ reply = [a \in Agents |-> <<>>]
    /\ retry = [a \in Agents |-> Pending]
    /\ analysis = [a \in Agents |-> NoAnalysis]
    /\ update = [a \in Agents |-> EmptyDict]
    /\ events = <<>>
    /\ cli = [at |-> "idle", seen |-> 0, how |-> None]
    /\ results = <<>>
    /\ exit_code = NoExit

StaysAtRest ==
    UNCHANGED <<cache_enabled, file, pipeline_error, node, attempt, calls, sleeps, outcomes,
                reply, retry, analysis, update, events, cli, results, exit_code>>

InitVerdict ==
    /\ AtRest
    /\ pc = "verdict"
    /\ \E score \in Scores, severity_counts \in SeverityCounts :
        state = [score |-> score, severity_counts |-> severity_counts]

Verdict ==
    /\ pc = "verdict"
    /\ state' = [score |-> state.score, severity_counts |-> state.severity_counts,
                 verdict |-> determine_verdict(state.score, state.severity_counts)]
    /\ pc' = "verdict_done"
    /\ StaysAtRest

VerdictSpec == InitVerdict /\ [][Verdict]_vars

----------------------------------------------------------------------------
(* The merge of the agents' step with fixed agent outputs: every selected  *)
(* agent node has its return value ready, the nodes return in any order.   *)

MergedFile == CHOOSE f \in Files : f.name = "test_config.json"

MergedAgents == Range(RoutedState(MergedFile)["agents_to_invoke"])

\* the issue dicts agent a may hand back
OutputIssues(a) ==
    {[obj |-> "dict", type |-> "quality", severity |-> s, line_number |-> l,
      description |-> <<"a", "b", "c", "d">>, suggestion |-> <<"f", "i", "x">>,
      code_snippet |-> None, agent |-> a, confidence |-> CONF_ONE] :
        s \in {"high", "low"}, l \in {1, 11}}

\* the dicts agent_node of a may return: its slot and its error entry
AgentOutputs(a) ==
    {[k \in {IssueField(a), "agent_errors"} |->
        IF k = "agent_errors" THEN DictSet(EmptyDict, a, None) ELSE issues] :
            issues \in SeqsUpTo(OutputIssues(a), MaxReply)}

InitMerge ==
    /\ cache_enabled = CACHE_ENABLED
    /\ file = MergedFile
    /\ state = RoutedState(MergedFile)
    /\ pc = "agents"
    /\ pipeline_error = None
    /\ node = [a \in Agents |-> IF a \in MergedAgents THEN "returning" ELSE "idle"]
    /\ attempt = [a \in Agents |-> 0]
    /\ calls = [a \in Agents |-> 0]
    /\ sleeps = [a \in Agents |-> 0]
    /\ outcomes = [a \in Agents |-> <<>>]
    /\ reply = [a \in Agents |-> <<>>]
    /\ retry = [a \in Agents |-> Pending]
    /\ analysis = [a \in Agents |-> NoAnalysis]
    /\ \E out \in [MergedAgents -> UNION {AgentOutputs(a) : a \in MergedAgents}] :
        /\ \A a \in MergedAgents : out[a] \in AgentOutputs(a)
        /\ update = [a \in Agents |-> IF a \in MergedAgents THEN out[a] ELSE EmptyDict]
    /\ events = <<"router">>
    /\ cli = [at |-> "idle", seen |-> 0, how |-> None]
    /\ results = <<>>
    /\ exit_code = NoExit

\* agent_node of a returns; its update is yielded
AgentReturn(a) ==
    /\ pc = "agents"
    /\ node[a] = "returning"
    /\ node' = [node EXCEPT ![a] = "done"]
    /\ events' = Append(events, a)
    /\ UNCHANGED <<cache_enabled, file, state, pc, pipeline_error, attempt, calls, sleeps,
                   outcomes, reply, retry, analysis, update>>
    /\ UNCHANGED cliVars

NextMerge ==
    \/ \E a \in Agents : AgentReturn(a)
    \/ ApplyWrites
    \/ Aggregator

MergeSpec == InitMerge /\ [][NextMerge]_vars

----------------------------------------------------------------------------
(* Properties of the pipeline *)

Invoked == Range(state["agents_to_invoke"])

HasFused == "deduplicated_issues" \in DOMAIN state

LastOutcome(a) == outcomes[a][Len(outcomes[a])]

Succeeded(a) == node[a] = "done" /\ retry[a].raised = None

FailedEveryAttempt(a) == node[a] = "done" /\ retry[a].raised \notin {None, "pending"}

\* the issues the gateway returned to a on its successful attempt
GatewayIssues(a) == IF Succeeded(a) THEN retry[a].issues ELSE <<>>

\* an issue list without the attribution field
Unstamped(issues) ==
    [i \in 1..Len(issues) |-> [k \in (DOMAIN issues[i]) \ {"agent"} |-> issues[i][k]]]

\* C1: a fused result (deduplicated_issues, final_score, verdict) exists only
\* when every agent of agents_to_invoke has terminated; none is still running
\* or not yet started.
C1_FusedOnlyAfterAllAgents ==
    HasFused =>
        /\ {"final_score", "verdict"} \subseteq DOMAIN state
        /\ \A a \in Invoked : node[a] = "done"

C1_Witness ==
    /\ pc = "done"
    /\ HasFused
    /\ Cardinality(Invoked) = 3
    /\ \E a \in Invoked : FailedEveryAttempt(a)
    /\ \E a \in Invoked : Succeeded(a)

\* C2: the update an agent hands back touches only its own issue slot and its
\* own telemetry entries, and once the parallel updates are merged every
\* invoked agent's issue slot, execution-time entry and error entry are what
\* that agent produced.
C2_NoCrossAgentWrite ==
    /\ \A b \in Agents :
        node[b] = "done" =>
            /\ DOMAIN update[b] \subseteq
                    {IssueField(b), "agent_errors", "agent_execution_times"}
            /\ "agent_errors" \in DOMAIN update[b] => DOMAIN update[b]["agent_errors"] = {b}
    /\ pc \in {"aggregator", "done"} =>
        \A a \in Invoked :
            /\ state[IssueField(a)] = analysis[a].issues
            /\ a \in DOMAIN state["agent_errors"]
            /\ state["agent_errors"][a] = update[a]["agent_errors"][a]
            /\ a \in DOMAIN state["agent_execution_times"]
            /\ state["agent_execution_times"][a] = analysis[a].execution_time

\* C3: all_issues holds exactly the issues the gateways returned to the invoked
\* agents on their successful attempts: none dropped, none added.
C3_AllIssuesAreGatewayIssues ==
    pc = "done" =>
        Unstamped(state["all_issues"])
            = Concat([a \in Agents |-> IF a \in Invoked THEN GatewayIssues(a) ELSE <<>>],
                     AGENT_ORDER)

\* The pipeline has ended: the graph returned or raised.
PipelineOver == pc \in {"done", "crashed"}

\* C6: when an invoked agent's gateway call fails on every attempt, that
\* agent's slot is empty and its error entry holds the failure message, the
\* other agents' issues are in all_issues and the pipeline produces a verdict.
C6_FailureIsolated ==
    \A a \in Invoked :
        (PipelineOver /\ FailedEveryAttempt(a)) =>
            /\ pc = "done"
            /\ "verdict" \in DOMAIN state
            /\ state[IssueField(a)] = <<>>
            /\ a \in DOMAIN state["agent_errors"]
            /\ state["agent_errors"][a] = retry[a].raised
            /\ \A b \in Invoked \ {a} :
                \A i \in 1..Len(GatewayIssues(b)) :
                    \E j \in 1..Len(state["all_issues"]) :
                        Unstamped(<<state["all_issues"][j]>>) = <<GatewayIssues(b)[i]>>

\* C7: when every invoked agent fails, the final state has no deduplicated
\* issue, score 0, verdict approve, and an error message for every agent of
\* agents_to_invoke.
C7_AllFailedWellFormed ==
    (PipelineOver /\ \A a \in Invoked : FailedEveryAttempt(a)) =>
        /\ pc = "done"
        /\ state["deduplicated_issues"] = <<>>
        /\ state["final_score"] = 0
        /\ state["verdict"] = "approve"
        /\ \A a \in Invoked :
            /\ a \in DOMAIN state["agent_errors"]
            /\ state["agent_errors"][a] # None

\* C8: within one analysis the gateway is called at most 3 times, no call
\* follows a successful one, the result of the retry loop is the successful
\* attempt's issue list, one sleep of a second separates a failed attempt from
\* the next and nothing else sleeps, and after a third failure the analysis
\* records the error and leaves an empty issue list.
C8_BoundedRetry ==
    \A a \in Agents :
        /\ calls[a] <= 3
        /\ \A i \in 1..(Len(outcomes[a]) - 1) : outcomes[a][i] # "ok"
        /\ sleeps[a] = Cardinality({i \in 1..Len(outcomes[a]) : i < 3 /\ outcomes[a][i] # "ok"})
        /\ node[a] = "sleeping" => calls[a] = sleeps[a]
        /\ node[a] \in {"gateway", "done"} => calls[a] = sleeps[a] + 1
        /\ (node[a] = "done" /\ LastOutcome(a) = "ok") =>
                /\ retry[a].raised = None
                /\ retry[a].issues = reply[a]
        /\ (node[a] = "done" /\ LastOutcome(a) # "ok") =>
                /\ calls[a] = 3
                /\ retry[a].raised = LastOutcome(a)
                /\ analysis[a].error = LastOutcome(a)
                /\ analysis[a].issues = <<>>

C8_Witness ==
    \E a, b \in Agents :
        /\ node[a] = "done" /\ calls[a] = 3 /\ sleeps[a] = 2 /\ LastOutcome(a) # "ok"
        /\ node[b] = "done" /\ calls[b] = 2 /\ sleeps[b] = 1 /\ LastOutcome(b) = "ok"
        /\ retry[b].issues # <<>>

\* C9: a fatal gateway failure is never retried: when the first call of an
\* analysis fails fatally, the gateway is called exactly once and the error is
\* recorded in the agent's telemetry.
C9_FatalNotRetried ==
    \A a \in Agents :
        (outcomes[a] # <<>> /\ outcomes[a][1] = "FatalError") =>
            /\ calls[a] = 1
            /\ node[a] = "done"
            /\ analysis[a].error = "FatalError"

\* C10: when the gateway call succeeds with a non-empty issue list, the
\* agent's slot holds exactly those issues, each with agent set to the agent's
\* name, and the agent's error entry is None.
C10_StampedSuccess ==
    \A a \in Agents :
        (Succeeded(a) /\ retry[a].issues # <<>>) =>
            /\ analysis[a].issues = Stamp(retry[a].issues, a)
            /\ \A i \in 1..Len(analysis[a].issues) : analysis[a].issues[i].agent = a
            /\ analysis[a].error = None

----------------------------------------------------------------------------
(* Properties of the fusion and of the driver *)

Fused == pc = "done" /\ HasFused

HasCritical(issues) == \E i \in 1..Len(issues) : issues[i].severity = "critical"

\* C4: whenever deduplicated_issues holds an issue of severity critical, the
\* verdict the aggregator writes is reject, whatever the score is.
C4_CriticalRejects ==
    (Fused /\ HasCritical(state["deduplicated_issues"])) => state["verdict"] = "reject"

\* C5: the driver exits with status 1 whenever some reviewed file's verdict is
\* reject, and with status 0 when every reviewed file's verdict is approve or
\* comment or when no file was reviewed.
C5_ExitFollowsVerdict ==
    (cli.at = "exited" /\ cli.how = "finished") =>
        IF \E r \in 1..Len(results) : results[r]["verdict"] = "reject"
        THEN exit_code = 1
        ELSE exit_code = 0

----------------------------------------------------------------------------
(* Properties of the cache *)

SecondRun == cli.at = "second_run"

\* the agents whose node ran to its end in the first run
RanBefore == {a \in Agents : SecondRun /\ results[1].update[a] # EmptyDict}

\* C11: with caching enabled, a later run of an agent node with the same
\* (file_path, code, diff, agent_name) is a cache hit: the node returns what
\* the first run stored and the gateway is not called.
C11_SecondRunIsCacheHit ==
    \A a \in RanBefore :
        /\ calls[a] = 0
        /\ node[a] = "done" => update[a] = results[1].update[a]

\* C12: on a cache miss with caching enabled the agent node returns the
\* agent's own result, the output it gives with the cache switched off.
C12_MissReturnsAgentResult ==
    \A a \in Agents :
        (cache_enabled /\ pc = "agents" /\ node[a] = "done") =>
            update[a] = analyze_finish(state, a, retry[a], analysis[a].execution_time)

\* what a run of the pipeline ended with
RunResult(p, e, st) ==
    [ended |-> p, error |-> e,
     deduplicated_issues |-> IF p = "done" THEN st["deduplicated_issues"] ELSE <<>>,
     final_score |-> IF p = "done" THEN st["final_score"] ELSE 0]

BothRunsOver ==
    /\ SecondRun
    /\ pc \in {"done", "crashed"}
    /\ pipeline_error # "InvalidUpdateError"
    /\ results[1].pipeline_error # "InvalidUpdateError"

----------------------------------------------------------------------------
(* Properties of the router *)

Routed == pc = "agents"

\* the routing rules in the order they are tried: a condition and a list
RoutingRules(path, file_type) ==
    <<[when |-> is_documentation_file(path), agents |-> <<"documentation", "style">>],
      [when |-> is_config_file(path), agents |-> <<"security", "documentation", "style">>],
      [when |-> is_test_file(path),
       agents |-> <<"quality", "testing", "documentation", "style">>],
      [when |-> file_type \in {"python", "javascript", "typescript", "go", "rust", "java",
                              "ruby", "php"},
       agents |-> <<"security", "quality", "performance", "testing", "documentation",
                    "style">>],
      [when |-> file_type = "sql",
       agents |-> <<"security", "quality", "performance", "documentation", "style">>],
      [when |-> file_type \in {"html", "css", "scss", "sass"},
       agents |-> <<"quality", "documentation", "style">>],
      [when |-> file_type = "shell",
       agents |-> <<"security", "quality", "documentation", "style">>],
      [when |-> file_type \in {"json", "yaml", "toml", "xml"},
       agents |-> <<"security", "documentation", "style">>],
      [when |-> TRUE, agents |-> <<"security", "quality", "documentation", "style">>]>>

FirstMatch(rules) ==
    rules[CHOOSE i \in 1..Len(rules) : rules[i].when /\ \A j \in 1..(i - 1) : ~rules[j].when]

\* C14: the router returns the agent list of the first rule that matches, the
\* rules being tried in the order documentation file, config file, test file,
\* file type table, default; a path with a config and a test pattern gets
\* [security, documentation, style].
C14_FirstMatchingRule ==
    Routed =>
        /\ state["agents_to_invoke"] = FirstMatch(RoutingRules(file, state["file_type"])).agents
        /\ (is_config_file(file) /\ is_test_file(file) /\ ~is_documentation_file(file))
                => state["agents_to_invoke"] = <<"security", "documentation", "style">>

C14_Witness ==
    /\ Routed
    /\ is_config_file(file) /\ is_test_file(file) /\ ~is_documentation_file(file)
    /\ state["file_type"] = "python"
    /\ state["agents_to_invoke"] = <<"security", "documentation", "style">>

----------------------------------------------------------------------------
(* Properties of the deduplication *)

\* the clusters deduplicate_issues forms of all_issues, as lists of issues
ClustersOf(all_issues) ==
    LET clusters == Clusters(all_issues, 1, {})
    IN  [c \in 1..Len(clusters) |->
            [m \in 1..Len(clusters[c]) |-> all_issues[clusters[c][m]]]]

Lines(issues) == [i \in 1..Len(issues) |-> issues[i].line_number]

\* C15: three issues in this order at lines 1, 6 and 11 (each within 5 lines
\* of the next, the first and the last 10 lines apart) end in one cluster and
\* one fused issue.
C15_ChainIsOneCluster ==
    (Fused /\ Lines(state["all_issues"]) = <<1, 6, 11>>) =>
        Len(state["deduplicated_issues"]) = 1

\* C16: deduplication is idempotent: deduplicating deduplicated_issues again
\* gives deduplicated_issues.
C16_DedupIdempotent ==
    Fused => deduplicate_issues(state["deduplicated_issues"]) = state["deduplicated_issues"]

\* C17: every issue of deduplicated_issues carries duplicate_count, equal to
\* the size of the cluster it was merged from, clusters of one issue included.
C17_DuplicateCountIsClusterSize ==
    Fused =>
        LET clusters == ClustersOf(state["all_issues"])
        IN  /\ Len(state["deduplicated_issues"]) = Len(clusters)
            /\ \A c \in 1..Len(clusters) :
                /\ "duplicate_count" \in DOMAIN state["deduplicated_issues"][c]
                /\ state["deduplicated_issues"][c]["duplicate_count"] = Len(clusters[c])

\* C18: the severity of every fused issue is the highest severity
\* (critical > high > medium > low > info) among the issues of its cluster.
C18_SeverityIsClusterMax ==
    Fused =>
        LET clusters == ClustersOf(state["all_issues"])
            prio(issue) == get_severity_priority(issue.severity)
        IN  /\ Len(state["deduplicated_issues"]) = Len(clusters)
            /\ \A c \in 1..Len(clusters) :
                /\ \A m \in 1..Len(clusters[c]) :
                    prio(clusters[c][m]) <= prio(state["deduplicated_issues"][c])
                /\ \E m \in 1..Len(clusters[c]) :
                    clusters[c][m].severity = state["deduplicated_issues"][c].severity

C18_Witness ==
    /\ Fused
    /\ \E c \in 1..Len(state["deduplicated_issues"]) :
        LET cluster == ClustersOf(state["all_issues"])[c]
        IN  /\ Len(cluster) = 3
            /\ cluster[1].severity = "low"
            /\ cluster[2].severity = "critical"
            /\ cluster[3].severity = "high"
            /\ state["deduplicated_issues"][c].severity = "critical"

\* C19: when two or more issues are merged into one fused issue, its agents
\* field lists exactly the agent names of the issues of the cluster, each once.
C19_AgentsIsClusterUnion ==
    Fused =>
        LET clusters == ClustersOf(state["all_issues"])
        IN  \A c \in 1..Len(clusters) :
                Len(clusters[c]) >= 2 =>
                    LET fused == state["deduplicated_issues"][c]
                    IN  /\ "agents" \in DOMAIN fused
                        /\ Range(fused["agents"])
                                = {clusters[c][m].agent : m \in 1..Len(clusters[c])}
                        /\ Len(fused["agents"]) = Cardinality(Range(fused["agents"]))

C19_Witness ==
    /\ Fused
    /\ Len(state["all_issues"]) = 3
    /\ Len(state["deduplicated_issues"]) = 1
    /\ \A i \in 1..3 : state["all_issues"][i].line_number = 6
    /\ state["deduplicated_issues"][1]["agents"] = <<"security", "style">>

\* the weight tables of the score, in units
SeverityWeightTimes10(severity) ==
    CASE severity = "critical" -> 100 [] severity = "high" -> 50 [] severity = "medium" -> 20
      [] severity = "low" -> 10 [] severity = "info" -> 5

AgentWeightTimes10(agent) ==
    CASE agent = "security" -> 20 [] agent = "quality" -> 15 [] agent = "performance" -> 13
      [] agent = "testing" -> 12 [] agent = "documentation" -> 10 [] agent = "style" -> 5

\* the agents of a deduplicated issue: its agents list, or its one producer
AgentsOf(issue) ==
    IF "agents" \in DOMAIN issue THEN Range(issue["agents"]) ELSE {issue.agent}

\* 100 * CONF_ONE times the unrounded score of a list of deduplicated issues
UnroundedScore(issues) ==
    Sum([i \in 1..Len(issues) |->
            SeverityWeightTimes10(issues[i].severity)
                * (CHOOSE w \in {AgentWeightTimes10(a) : a \in AgentsOf(issues[i])} :
                        \A a \in AgentsOf(issues[i]) : AgentWeightTimes10(a) <= w)
                * issues[i].confidence])

\* C20: final_score is the sum over the deduplicated issues of severity weight
\* x largest agent weight among the issue's agents x confidence, rounded to 2
\* decimals (final_score is the multiple of 0.01 nearest to the sum).
C20_ScoreFormula ==
    Fused =>
        LET exact == UnroundedScore(state["deduplicated_issues"])
            score == state["final_score"] * CONF_ONE
        IN  2 * Abs(score - exact) <= CONF_ONE

C20_Witness ==
    /\ Fused
    /\ Len(state["deduplicated_issues"]) = 2
    /\ AgentsOf(state["deduplicated_issues"][1]) = {"security", "style"}
    /\ state["deduplicated_issues"][1].severity = "low"
    /\ state["deduplicated_issues"][1].confidence = (CONF_ONE \div 20) * 11
    /\ state["deduplicated_issues"][2].severity = "critical"
    /\ state["deduplicated_issues"][2].agent = "style"
    /\ state["deduplicated_issues"][2].confidence = CONF_ONE
    /\ state["final_score"] = 610

----------------------------------------------------------------------------
(* Properties of the verdict *)

\* C21: with no critical and no high issue the verdict is reject exactly when
\* the score is above 15, comment exactly when it is above 5 and not above 15,
\* approve exactly when it is not above 5; in hundredths: 1500 and 500.
C21_StrictThresholds ==
    (pc = "verdict_done" /\ state.severity_counts["critical"] = 0
                         /\ state.severity_counts["high"] = 0) =>
        /\ state.verdict = "reject" <=> state.score > 1500
        /\ state.verdict = "comment" <=> (500 < state.score /\ state.score <= 1500)
        /\ state.verdict = "approve" <=> state.score <= 500

C21_Witness ==
    /\ pc = "verdict_done"
    /\ state.severity_counts["critical"] = 0
    /\ state.severity_counts["high"] = 0
    /\ state.score = 1500
    /\ state.verdict = "comment"

----------------------------------------------------------------------------
(* Properties of the stream *)

C23_EventuallyAggregated ==
    <>[](pc = "done" /\ events # <<>> /\ events[Len(events)] = "aggregator")

----------------------------------------------------------------------------
(* Properties of the merge *)

\* the issue lists the agents handed back, in the fixed collection order
HandedBack ==
    Concat([a \in Agents |-> IF a \in Invoked THEN update[a][IssueField(a)] ELSE <<>>],
           <<"security", "quality", "performance", "testing", "documentation", "style">>)

\* C24: for fixed per-agent outputs the fused result is the same for every
\* order in which the agents complete: deduplicated_issues, final_score and
\* verdict are those of the agents' outputs alone, whatever the event order.
C24_FusionIgnoresCompletionOrder ==
    Fused =>
        LET expected == aggregate_fused(HandedBack, deduplicate_issues(HandedBack))
        IN  /\ state["deduplicated_issues"] = expected["deduplicated_issues"]
            /\ state["final_score"] = expected["final_score"]
            /\ state["verdict"] = expected["verdict"]

C24_Witness ==
    /\ Fused
    /\ events = <<"router", "style", "documentation", "security", "aggregator">>
    /\ Len(state["deduplicated_issues"]) = 2
    /\ state["deduplicated_issues"][1].line_number = 11
    /\ DictGet(state["deduplicated_issues"][1], "agents", <<>>) = <<"security", "style">>
    /\ state["deduplicated_issues"][2].agent = "documentation"

----------------------------------------------------------------------------
(* Properties of the clusters *)

\* C25: the clusters of deduplicate_issues partition all_issues: every input
\* issue is in exactly one cluster, the cluster sizes sum to len(all_issues),
\* and deduplicated_issues has one issue per cluster, so it is never longer
\* than all_issues and as long exactly when no two issues were merged.
C25_ClustersPartition ==
    Fused =>
        LET all_issues == state["all_issues"]
            clusters == Clusters(all_issues, 1, {})
            places(i) == {cm \in {<<c, m>> : c \in 1..Len(clusters), m \in 1..MaxIssues} :
                            cm[2] <= Len(clusters[cm[1]]) /\ clusters[cm[1]][cm[2]] = i}
        IN  /\ \A i \in 1..Len(all_issues) : Cardinality(places(i)) = 1
            /\ \A c \in 1..Len(clusters) : Range(clusters[c]) \subseteq 1..Len(all_issues)
            /\ Sum([c \in 1..Len(clusters) |-> Len(clusters[c])]) = Len(all_issues)
            /\ Len(state["deduplicated_issues"]) = Len(clusters)
            /\ Len(state["deduplicated_issues"]) <= Len(all_issues)
            /\ (Len(state["deduplicated_issues"]) = Len(all_issues)) <=>
                    (\A c \in 1..Len(clusters) : Len(clusters[c]) = 1)

C25_Witness ==
    /\ Fused
    /\ Lines(state["all_issues"]) = <<1, 11, 6>>
    /\ Clusters(state["all_issues"], 1, {}) = <<(<<1, 3>>), (<<2>>)>>
    /\ Len(state["deduplicated_issues"]) = 2

\* C28: every member of a cluster is similar to the cluster's seed, its first
\* issue: a member with a line number is within LINE_RANGE lines of the
\* seed's line, a member without one joins only a seed without one, and no
\* cluster holds both issues with and issues without a line number.
C28_MembersSimilarToSeed ==
    Fused =>
        LET all_issues == state["all_issues"]
            clusters == Clusters(all_issues, 1, {})
        IN  \A c \in 1..Len(clusters) :
                \A m \in 1..Len(clusters[c]) :
                    LET seed_line == all_issues[clusters[c][1]].line_number
                        line == all_issues[clusters[c][m]].line_number
                    IN  /\ clusters[c][1] <= clusters[c][m]
                        /\ (line = NoLine) <=> (seed_line = NoLine)
                        /\ line # NoLine =>
                            /\ line - seed_line <= LINE_RANGE
                            /\ seed_line - line <= LINE_RANGE

C28_Witness ==
    /\ Fused
    /\ Lines(state["all_issues"]) = <<NoLine, 6, NoLine>>
    /\ Len(ClustersOf(state["all_issues"])) = 2
    /\ Len(ClustersOf(state["all_issues"])[1]) = 2

----------------------------------------------------------------------------
(* Properties of the collection *)

\* the slots' lists, one after the other in the order of agents_to_invoke
InRoutingOrder(st) == Concat([a \in Agents |-> st[IssueField(a)]], st["agents_to_invoke"])

\* C26: all_issues is the concatenation of the per-agent issue lists in the
\* order of the router's agents_to_invoke list, for every list the router
\* returns.
C26_CollectedInRoutingOrder ==
    Fused => state["all_issues"] = InRoutingOrder(state)

C26_Witness ==
    /\ Fused
    /\ state["agents_to_invoke"] = <<"quality", "testing", "documentation", "style">>
    /\ Len(state["all_issues"]) = 3
    /\ state["all_issues"][1].agent = "quality"
    /\ state["all_issues"][2].agent = "testing"
    /\ state["all_issues"][3].agent = "style"
    /\ state["all_issues"] = InRoutingOrder(state)

----------------------------------------------------------------------------
(* Properties of the fusion's failures *)

\* C29: fusion never fails: for every list of issues, descriptions and
\* suggestions possibly empty or whitespace-only, deduplicate_issues and
\* calculate_weighted_score return a result and raise no error, also when
\* all issues of a cluster of two or more have an empty description.
C29_FusionNeverFails ==
    /\ deduplicate_raises(get_all_agent_issues(state)) = None
    /\ pc # "crashed"

----------------------------------------------------------------------------
(* Properties of the cache key *)

\* the components a key is made from
KeyComponents(r) == <<r.file_path, r.code, r.diff, r.agent_name>>

\* C30: the cache key distinguishes its four components: two agent
\* invocations whose (file_path, code, diff, agent_name) tuples differ never
\* get the same key, also when code or diff contain the separator "||".
C30_KeyDistinguishesComponents ==
    \A i, j \in 1..Len(results) :
        KeyComponents(results[i]) # KeyComponents(results[j]) =>
            results[i].key # results[j].key

====
